---- MODULE Spec2Model ----
(***************************************************************************)
(* Model of src/src/lib.rs: the pandoc document types, their Serialize     *)
(* impls (the {"t": .., "c": ..} tag wrappers), the derived Deserialize    *)
(* impls, the JSON rewrite pandoc_to_serde and the entry point filter.     *)
(*                                                                         *)
(* A serde_json Value is a tuple whose first element names the variant:    *)
(*   <<"Null">>, <<"Bool", b>>, <<"Number", n>>, <<"String", s>>,          *)
(*   <<"Array", sequence>>, <<"Object", function from keys to Values>>.    *)
(* A value of a Rust enum is <<VariantName, sequence of fields>>; a tuple  *)
(* or Vec is a sequence; a Map or a struct with named fields is a function *)
(* from strings.                                                           *)
(***************************************************************************)
EXTENDS Integers, Sequences, FiniteSets, TLC

VARIABLES pc, json, f, data, doc, out, err, calls, trace, round, sent

vars == <<pc, json, f, data, doc, out, err, calls, trace, round, sent>>

-----------------------------------------------------------------------------
(* serde_json::Value                                                       *)

ValueNull == <<"Null">>

ValueBool(b) == <<"Bool", b>>

ValueNumber(n) == <<"Number", n>>

ValueString(s) == <<"String", s>>

ValueArray(vec) == <<"Array", [i \in DOMAIN vec |-> vec[i]]>>

ValueObject(map) == <<"Object", [k \in DOMAIN map |-> map[k]]>>

Ok(v) == <<"Ok", v>>

Panic(site) == <<"Panic", site>>

IsOk(r) == r[1] = "Ok"

AllOk(rs) == \A i \in DOMAIN rs : IsOk(rs[i])

Unwrapped(rs) == [i \in DOMAIN rs |-> rs[i][2]]

-----------------------------------------------------------------------------
(* fn pandoc_to_serde(data: &mut Value): the result is Ok(rewritten value) *)
(* or the panic of unimplemented!(), which unwinds out of every level.     *)

RECURSIVE pandoc_to_serde(_)

\* a slip in the test of line 350: the number of keys is not looked at
NotTaggedAnySize(map) == "c" \notin DOMAIN map \/ "t" \notin DOMAIN map

\* line 350: the object is not one with exactly the keys "t" and "c"
NotTagged(map) ==
    Cardinality(DOMAIN map) # 2 \/ "c" \notin DOMAIN map \/ "t" \notin DOMAIN map

\* a slip in lines 358-360: the payload is moved without being rewritten
RetagShallow(s, map) ==
    Ok(ValueObject([k \in (DOMAIN map \ {"t", "c"}) \cup {s} |->
                       IF k = s THEN map["c"] ELSE map[k]]))

\* lines 356-360: "t" and "c" are removed, the payload is rewritten and
\* inserted under the key s, the string that was under "t"
Retag(s, map) ==
    LET c == pandoc_to_serde(map["c"])
    IN  IF IsOk(c)
        THEN Ok(ValueObject([k \in (DOMAIN map \ {"t", "c"}) \cup {s} |->
                                IF k = s THEN c[2] ELSE map[k]]))
        ELSE c

\* a slip in line 362: an empty else branch, the map is left without its "t"
NonStringTagIgnored(map) == Ok(ValueObject([k \in DOMAIN map \ {"t"} |-> map[k]]))

\* line 362: unimplemented!() when the value under "t" is not a string
NonStringTag(map) == Panic("unimplemented")

pandoc_to_serde(value) ==
    CASE value[1] = "Array" ->
           LET rs == [i \in DOMAIN value[2] |-> pandoc_to_serde(value[2][i])]
           IN  IF AllOk(rs) THEN Ok(ValueArray(Unwrapped(rs)))
                            ELSE Panic("unimplemented")
      [] value[1] = "Object" ->
           LET map == value[2]
           IN  IF NotTagged(map)
               THEN LET rs == [k \in DOMAIN map |-> pandoc_to_serde(map[k])]
                    IN  IF AllOk(rs) THEN Ok(ValueObject(Unwrapped(rs)))
                                     ELSE Panic("unimplemented")
               ELSE LET t == map["t"]
                    IN  IF t[1] = "String" THEN Retag(t[2], map)
                                           ELSE NonStringTag(map)
      [] OTHER -> Ok(value)

-----------------------------------------------------------------------------
(* The document types.  A type is described by a tuple; an enum is         *)
(* described by the record of its variants, each with the types of its     *)
(* fields in declaration order.                                            *)

StringTy == <<"String">>

IntTy == <<"Int">>

Double == <<"Double">>

BoolTy == <<"Bool">>

Vec(ty) == <<"Vec", ty>>

Tuple(tys) == <<"Tuple", tys>>

Map(ty) == <<"Map", ty>>

Pandoc == <<"Struct", "Pandoc">>

Meta == <<"Struct", "Meta">>

Format == <<"Struct", "Format">>

Citation == <<"Struct", "Citation">>

MetaValue == <<"Enum", "MetaValue">>

Block == <<"Enum", "Block">>

Inline == <<"Enum", "Inline">>

Alignment == <<"Enum", "Alignment">>

ListNumberStyle == <<"Enum", "ListNumberStyle">>

ListNumberDelim == <<"Enum", "ListNumberDelim">>

QuoteType == <<"Enum", "QuoteType">>

MathType == <<"Enum", "MathType">>

CitationMode == <<"Enum", "CitationMode">>

ListAttributes == Tuple(<<IntTy, ListNumberStyle, ListNumberDelim>>)

Attr == Tuple(<<StringTy, Vec(StringTy), Vec(Tuple(<<StringTy, StringTy>>))>>)

TableCell == Vec(Block)

Target == Tuple(<<StringTy, StringTy>>)

MetaValueVariants ==
    [MetaMap     |-> <<Map(MetaValue)>>,
     MetaList    |-> <<Vec(MetaValue)>>,
     MetaBool    |-> <<BoolTy>>,
     MetaString  |-> <<StringTy>>,
     MetaInlines |-> <<Vec(Inline)>>,
     MetaBlocks  |-> <<Vec(Block)>>]

BlockVariants ==
    [Plain          |-> <<Vec(Inline)>>,
     Para           |-> <<Vec(Inline)>>,
     CodeBlock      |-> <<Attr, StringTy>>,
     RawBlock       |-> <<Format, StringTy>>,
     BlockQuote     |-> <<Vec(Block)>>,
     OrderedList    |-> <<ListAttributes, Vec(Vec(Block))>>,
     BulletList     |-> <<Vec(Vec(Block))>>,
     DefinitionList |-> <<Vec(Tuple(<<Vec(Inline), Vec(Vec(Block))>>))>>,
     Header         |-> <<IntTy, Attr, Vec(Inline)>>,
     HorizontalRule |-> <<>>,
     Table          |-> <<Vec(Inline), Vec(Alignment), Vec(Double), Vec(TableCell), Vec(Vec(TableCell))>>,
     Div            |-> <<Attr, Vec(Block)>>,
     Null           |-> <<>>]

InlineVariants ==
    [Str         |-> <<StringTy>>,
     Emph        |-> <<Vec(Inline)>>,
     Strong      |-> <<Vec(Inline)>>,
     Strikeout   |-> <<Vec(Inline)>>,
     Superscript |-> <<Vec(Inline)>>,
     Subscript   |-> <<Vec(Inline)>>,
     SmallCaps   |-> <<Vec(Inline)>>,
     Quoted      |-> <<QuoteType, Vec(Inline)>>,
     Cite        |-> <<Vec(Citation), Vec(Inline)>>,
     Code        |-> <<Attr, StringTy>>,
     Space       |-> <<>>,
     LineBreak   |-> <<>>,
     Math        |-> <<MathType, StringTy>>,
     RawInline   |-> <<Format, StringTy>>,
     Link        |-> <<Vec(Inline), Target>>,
     Image       |-> <<Vec(Inline), Target>>,
     Note        |-> <<Vec(Block)>>,
     Span        |-> <<Attr, Vec(Inline)>>]

AlignmentVariants ==
    [AlignLeft |-> <<>>, AlignRight |-> <<>>, AlignCenter |-> <<>>, AlignDefault |-> <<>>]

ListNumberStyleVariants ==
    [DefaultStyle |-> <<>>, Example |-> <<>>, Decimal |-> <<>>, LowerRoman |-> <<>>,
     UpperRoman |-> <<>>, LowerAlpha |-> <<>>, UpperAlpha |-> <<>>]

ListNumberDelimVariants ==
    [DefaultDelim |-> <<>>, Period |-> <<>>, OneParen |-> <<>>, TwoParens |-> <<>>]

QuoteTypeVariants == [SingleQuote |-> <<>>, DoubleQuote |-> <<>>]

MathTypeVariants == [DisplayMath |-> <<>>, InlineMath |-> <<>>]

CitationModeVariants == [AuthorInText |-> <<>>, SuppressAuthor |-> <<>>, NormalCitation |-> <<>>]

CitationFields ==
    [citationId      |-> StringTy,
     citationPrefix  |-> Vec(Inline),
     citationSuffix  |-> Vec(Inline),
     citationMode    |-> CitationMode,
     citationNoteNum |-> IntTy,
     citationHash    |-> IntTy]

MetaFields == [unMeta |-> Map(MetaValue)]

PandocFields == <<Meta, Vec(Block)>>

VariantsOf(name) ==
    CASE name = "MetaValue"       -> MetaValueVariants
      [] name = "Block"           -> BlockVariants
      [] name = "Inline"          -> InlineVariants
      [] name = "Alignment"       -> AlignmentVariants
      [] name = "ListNumberStyle" -> ListNumberStyleVariants
      [] name = "ListNumberDelim" -> ListNumberDelimVariants
      [] name = "QuoteType"       -> QuoteTypeVariants
      [] name = "MathType"        -> MathTypeVariants
      [] name = "CitationMode"    -> CitationModeVariants

-----------------------------------------------------------------------------
(* Serialize.  Helper is the struct {t, c} of lines 33-37 and seq! builds  *)
(* one and serializes it: an object with the two keys "t" and "c".         *)

\* a slip in the struct literal of lines 41-44: the two fields exchanged
HelperSwapped(t, c) == ValueObject([k \in {"t", "c"} |-> IF k = "t" THEN c ELSE ValueString(t)])

Helper(t, c) == ValueObject([k \in {"t", "c"} |-> IF k = "t" THEN ValueString(t) ELSE c])

seq(var, vec) == Helper(var, vec)

\* a slip in lines 286-290: Unit serialized as a unit value, JSON null
UnitAsNull == ValueNull

\* impl Serialize for Unit: visit_seq over a visitor of length 0
Unit == ValueArray(<<>>)

RECURSIVE Serialize(_, _)

\* the serialization of a Rust tuple (val, val2, ...): an array of the parts
SerializeTuple(tys, vals) == ValueArray([i \in DOMAIN tys |-> Serialize(tys[i], vals[i])])

SerializeMetaValue(self) ==
    LET val == Serialize(MetaValueVariants[self[1]][1], self[2][1])
    IN  CASE self[1] = "MetaMap"     -> seq("MetaMap", val)
          [] self[1] = "MetaList"    -> seq("MetaList", val)
          [] self[1] = "MetaBool"    -> seq("MetaBool", val)
          [] self[1] = "MetaString"  -> seq("MetaString", val)
          [] self[1] = "MetaInlines" -> seq("MetaInlines", val)
          [] self[1] = "MetaBlocks"  -> seq("MetaBlocks", val)

SerializeBlock(self) ==
    LET tys == BlockVariants[self[1]]
        val == Serialize(tys[1], self[2][1])
        first(n) == SerializeTuple(SubSeq(tys, 1, n), SubSeq(self[2], 1, n))
    IN  CASE self[1] = "Plain"          -> seq("Plain", val)
          [] self[1] = "Para"           -> seq("Para", val)
          [] self[1] = "CodeBlock"      -> seq("CodeBlock", first(2))
          [] self[1] = "RawBlock"       -> seq("RawBlock", first(2))
          [] self[1] = "BlockQuote"     -> seq("BlockQuote", val)
          [] self[1] = "OrderedList"    -> seq("OrderedList", first(2))
          [] self[1] = "BulletList"     -> seq("BulletList", val)
          [] self[1] = "DefinitionList" -> seq("DefinitionList", val)
          [] self[1] = "Header"         -> seq("Header", first(3))
          [] self[1] = "HorizontalRule" -> seq("HorizontalRule", Unit)
          [] self[1] = "Table"          -> seq("Table", first(5))
          [] self[1] = "Div"            -> seq("Div", first(2))
          [] self[1] = "Null"           -> seq("Null", Unit)

SerializeInline(self) ==
    LET tys == InlineVariants[self[1]]
        val == Serialize(tys[1], self[2][1])
        first(n) == SerializeTuple(SubSeq(tys, 1, n), SubSeq(self[2], 1, n))
    IN  CASE self[1] = "Str"         -> seq("Str", val)
          [] self[1] = "Emph"        -> seq("Emph", val)
          [] self[1] = "Strong"      -> seq("Strong", val)
          [] self[1] = "Strikeout"   -> seq("Strikeout", val)
          [] self[1] = "Superscript" -> seq("Superscript", val)
          [] self[1] = "Subscript"   -> seq("Subscript", val)
          [] self[1] = "SmallCaps"   -> seq("SmallCaps", val)
          [] self[1] = "Quoted"      -> seq("Quoted", first(2))
          [] self[1] = "Cite"        -> seq("Cite", first(2))
          [] self[1] = "Code"        -> seq("Code", first(2))
          [] self[1] = "Space"       -> seq("Space", Unit)
          [] self[1] = "LineBreak"   -> seq("LineBreak", Unit)
          [] self[1] = "Math"        -> seq("Math", first(2))
          [] self[1] = "RawInline"   -> seq("RawInline", first(2))
          [] self[1] = "Link"        -> seq("Link", first(2))
          [] self[1] = "Image"       -> seq("Image", first(2))
          [] self[1] = "Note"        -> seq("Note", val)
          [] self[1] = "Span"        -> seq("Span", first(2))

SerializeAlignment(self) ==
    CASE self[1] = "AlignLeft"    -> seq("AlignLeft", Unit)
      [] self[1] = "AlignRight"   -> seq("AlignRight", Unit)
      [] self[1] = "AlignCenter"  -> seq("AlignCenter", Unit)
      [] self[1] = "AlignDefault" -> seq("AlignDefault", Unit)

SerializeListNumberStyle(self) ==
    CASE self[1] = "DefaultStyle" -> seq("DefaultStyle", Unit)
      [] self[1] = "Example"      -> seq("Example", Unit)
      [] self[1] = "Decimal"      -> seq("Decimal", Unit)
      [] self[1] = "LowerRoman"   -> seq("LowerRoman", Unit)
      [] self[1] = "UpperRoman"   -> seq("UpperRoman", Unit)
      [] self[1] = "LowerAlpha"   -> seq("LowerAlpha", Unit)
      [] self[1] = "UpperAlpha"   -> seq("UpperAlpha", Unit)

SerializeListNumberDelim(self) ==
    CASE self[1] = "DefaultDelim" -> seq("DefaultDelim", Unit)
      [] self[1] = "Period"       -> seq("Period", Unit)
      [] self[1] = "OneParen"     -> seq("OneParen", Unit)
      [] self[1] = "TwoParens"    -> seq("TwoParens", Unit)

SerializeQuoteType(self) ==
    CASE self[1] = "SingleQuote" -> seq("SingleQuote", Unit)
      [] self[1] = "DoubleQuote" -> seq("DoubleQuote", Unit)

SerializeMathType(self) ==
    CASE self[1] = "DisplayMath" -> seq("DisplayMath", Unit)
      [] self[1] = "InlineMath"  -> seq("InlineMath", Unit)

SerializeCitationMode(self) ==
    CASE self[1] = "AuthorInText"   -> seq("AuthorInText", Unit)
      [] self[1] = "SuppressAuthor" -> seq("SuppressAuthor", Unit)
      [] self[1] = "NormalCitation" -> seq("NormalCitation", Unit)

\* #[derive(Serialize)] on the tuple struct Pandoc(Meta, Vec<Block>)
SerializePandoc(self) == SerializeTuple(PandocFields, self)

\* a slip in lines 17-21: the map serialized without the struct around it
SerializeMetaFlat(self) == Serialize(MetaFields["unMeta"], self["unMeta"])

\* #[derive(Serialize)] on struct Meta { unMeta }
SerializeMeta(self) ==
    ValueObject([k \in DOMAIN MetaFields |-> Serialize(MetaFields[k], self[k])])

\* #[derive(Serialize)] on the newtype struct Format(String)
SerializeFormat(self) == Serialize(StringTy, self[1])

\* #[derive(Serialize)] on struct Citation { six named fields }
SerializeCitation(self) ==
    ValueObject([k \in DOMAIN CitationFields |-> Serialize(CitationFields[k], self[k])])

Serialize(ty, self) ==
    CASE ty[1] = "String" -> ValueString(self)
      [] ty[1] = "Int"    -> ValueNumber(self)
      [] ty[1] = "Double" -> ValueNumber(self)
      [] ty[1] = "Bool"   -> ValueBool(self)
      [] ty[1] = "Vec"    -> ValueArray([i \in DOMAIN self |-> Serialize(ty[2], self[i])])
      [] ty[1] = "Tuple"  -> SerializeTuple(ty[2], self)
      [] ty[1] = "Map"    -> ValueObject([k \in DOMAIN self |-> Serialize(ty[2], self[k])])
      [] ty = Pandoc          -> SerializePandoc(self)
      [] ty = Meta            -> SerializeMeta(self)
      [] ty = Format          -> SerializeFormat(self)
      [] ty = Citation        -> SerializeCitation(self)
      [] ty = MetaValue       -> SerializeMetaValue(self)
      [] ty = Block           -> SerializeBlock(self)
      [] ty = Inline          -> SerializeInline(self)
      [] ty = Alignment       -> SerializeAlignment(self)
      [] ty = ListNumberStyle -> SerializeListNumberStyle(self)
      [] ty = ListNumberDelim -> SerializeListNumberDelim(self)
      [] ty = QuoteType       -> SerializeQuoteType(self)
      [] ty = MathType        -> SerializeMathType(self)
      [] ty = CitationMode    -> SerializeCitationMode(self)

-----------------------------------------------------------------------------
(* Deserialize: from_value on the types that derive Deserialize.  The      *)
(* derived impl of an enum reads an object with a single key, the variant  *)
(* name, and decodes the value under it by the variant's fields: no field  *)
(* from an empty sequence, one field from the value itself, several fields *)
(* from an array of that length.  The result is Ok(value) or Err.          *)

Err == <<"Err">>

RECURSIVE Deserialize(_, _)

DeserializeSeq(tys, value) ==
    IF value[1] = "Array" /\ Len(value[2]) = Len(tys)
    THEN LET rs == [i \in DOMAIN tys |-> Deserialize(tys[i], value[2][i])]
         IN  IF AllOk(rs) THEN Ok(Unwrapped(rs)) ELSE Err
    ELSE Err

DeserializeEnum(name, value) ==
    IF value[1] # "Object" THEN Err
    ELSE IF Cardinality(DOMAIN value[2]) # 1 THEN Err
    ELSE LET variant == CHOOSE k \in DOMAIN value[2] : TRUE
             payload == value[2][variant]
         IN  IF variant \notin DOMAIN VariantsOf(name) THEN Err
             ELSE LET tys == VariantsOf(name)[variant]
                  IN  IF Len(tys) = 1
                      THEN LET r == Deserialize(tys[1], payload)
                           IN  IF IsOk(r) THEN Ok(<<variant, <<r[2]>>>>) ELSE Err
                      ELSE LET rs == DeserializeSeq(tys, payload)
                           IN  IF IsOk(rs) THEN Ok(<<variant, rs[2]>>) ELSE Err

DeserializeStruct(fields, value) ==
    IF value[1] = "Object" /\ DOMAIN fields \subseteq DOMAIN value[2]
    THEN LET rs == [k \in DOMAIN fields |-> Deserialize(fields[k], value[2][k])]
         IN  IF AllOk(rs) THEN Ok(Unwrapped(rs)) ELSE Err
    ELSE Err

DeserializeFormat(value) ==
    LET r == Deserialize(StringTy, value)
    IN  IF IsOk(r) THEN Ok(<<r[2]>>) ELSE Err

Deserialize(ty, value) ==
    CASE ty[1] = "String" -> IF value[1] = "String" THEN Ok(value[2]) ELSE Err
      [] ty[1] = "Int"    -> IF value[1] = "Number" THEN Ok(value[2]) ELSE Err
      [] ty[1] = "Double" -> IF value[1] = "Number" THEN Ok(value[2]) ELSE Err
      [] ty[1] = "Bool"   -> IF value[1] = "Bool" THEN Ok(value[2]) ELSE Err
      [] ty[1] = "Vec"    ->
           IF value[1] = "Array"
           THEN LET rs == [i \in DOMAIN value[2] |-> Deserialize(ty[2], value[2][i])]
                IN  IF AllOk(rs) THEN Ok(Unwrapped(rs)) ELSE Err
           ELSE Err
      [] ty[1] = "Tuple"  -> DeserializeSeq(ty[2], value)
      [] ty[1] = "Map"    ->
           IF value[1] = "Object"
           THEN LET rs == [k \in DOMAIN value[2] |-> Deserialize(ty[2], value[2][k])]
                IN  IF AllOk(rs) THEN Ok(Unwrapped(rs)) ELSE Err
           ELSE Err
      [] ty[1] = "Enum"   -> DeserializeEnum(ty[2], value)
      [] ty = Pandoc      -> DeserializeSeq(PandocFields, value)
      [] ty = Meta        -> DeserializeStruct(MetaFields, value)
      [] ty = Citation    -> DeserializeStruct(CitationFields, value)
      [] ty = Format      -> DeserializeFormat(value)

\* from_value::<Pandoc>(data)
from_value(value) == Deserialize(Pandoc, value)

-----------------------------------------------------------------------------
(* from_str and to_string.  A text is <<"Text", value>> for the text of a  *)
(* JSON value and <<"Malformed", n>> for a text that is not JSON.          *)

Text(value) == <<"Text", value>>

from_str(text) == IF text[1] = "Text" THEN Ok(text[2]) ELSE Err

to_string(self) == Text(Serialize(Pandoc, self))

-----------------------------------------------------------------------------
(* Bounds and the inputs drawn within them.                                *)

\* nesting depth of the JSON values given to filter
MaxDepth == 2

\* nesting depth of the blocks in the documents a transform returns
MaxNesting == 2

\* how many times a text is passed through filter in a row
MaxInvocations == 2

None == <<"None">>

Variant(name, fields) == <<name, fields>>

UnitVariant(name) == <<name, <<>>>>

AttrEmpty == <<"", <<>>, <<>>>>

AttrFull == <<"id", <<"cls">>, << <<"k", "v">> >> >>

SomeTarget == <<"url", "title">>

Hi == Variant("Str", <<"Hi">>)

ParaHi == Variant("Para", << <<Hi>> >>)

SomeCitation(mode) ==
    [citationId |-> "ref", citationPrefix |-> <<>>, citationSuffix |-> <<Hi>>,
     citationMode |-> UnitVariant(mode), citationNoteNum |-> 0, citationHash |-> 1]

InlineLeaves ==
    {Hi, UnitVariant("Space"), UnitVariant("LineBreak"),
     Variant("Code", <<AttrFull, "x">>), Variant("RawInline", << <<"html">>, "x">>)}
    \cup {Variant("Math", <<UnitVariant(m), "x">>) : m \in DOMAIN MathTypeVariants}

InlineWraps(l) ==
    {Variant(n, <<l>>) : n \in {"Emph", "Strong", "Strikeout", "Superscript", "Subscript", "SmallCaps"}}
    \cup {Variant("Quoted", <<UnitVariant(q), l>>) : q \in DOMAIN QuoteTypeVariants}
    \cup {Variant("Cite", << <<SomeCitation(m)>>, l>>) : m \in DOMAIN CitationModeVariants}
    \cup {Variant("Link", <<l, SomeTarget>>), Variant("Image", <<l, SomeTarget>>),
          Variant("Span", <<AttrEmpty, l>>)}

InlineSamples ==
    InlineLeaves \cup InlineWraps(<<Hi>>)
    \cup {Variant("Emph", << <<>> >>), Variant("Emph", << <<Hi, UnitVariant("Space"), Hi>> >>),
          Variant("Strong", << <<Variant("Emph", << <<Hi>> >>)>> >>),
          Variant("Cite", << <<SomeCitation("NormalCitation")>>,
                             <<Variant("Link", << <<Hi>>, SomeTarget>>)>> >>)}

BlockSamples ==
    {Variant("Para", << <<i>> >>) : i \in InlineSamples}
    \cup {Variant("Plain", << <<Hi>> >>), Variant("CodeBlock", <<AttrFull, "x">>),
          Variant("RawBlock", << <<"html">>, "x">>),
          Variant("DefinitionList", << << << <<Hi>>, << <<ParaHi>> >> >> >> >>),
          Variant("Header", <<1, AttrEmpty, <<Hi>> >>), Variant("Header", <<2, AttrFull, <<>> >>),
          UnitVariant("HorizontalRule"), UnitVariant("Null")}
    \cup {Variant("OrderedList", << <<1, UnitVariant(s), UnitVariant("Period")>>, << <<ParaHi>> >> >>) :
            s \in DOMAIN ListNumberStyleVariants}
    \cup {Variant("OrderedList", << <<3, UnitVariant("Decimal"), UnitVariant(d)>>, <<>> >>) :
            d \in DOMAIN ListNumberDelimVariants}
    \cup {Variant("Table", << <<Hi>>, <<UnitVariant(a)>>, <<0>>, << <<ParaHi>> >>, << << <<ParaHi>> >> >> >>) :
            a \in DOMAIN AlignmentVariants}

RECURSIVE Nested(_)

Nested(d) ==
    IF d = 0 THEN {ParaHi, UnitVariant("HorizontalRule")}
    ELSE Nested(d - 1)
         \cup {Variant("BlockQuote", << <<b>> >>) : b \in Nested(d - 1)}
         \cup {Variant("Div", <<AttrEmpty, <<b>> >>) : b \in Nested(d - 1)}
         \cup {Variant("BulletList", << << <<b>> >> >>) : b \in Nested(d - 1)}
         \cup {Variant("Para", << <<Variant("Note", << <<b>> >>)>> >>) : b \in Nested(d - 1)}

MetaString(s) == Variant("MetaString", <<s>>)

MetaBool(b) == Variant("MetaBool", <<b>>)

MetaMap(m) == Variant("MetaMap", <<m>>)

MetaSamples ==
    {<<>>,
     "title" :> MetaString("Hi"),
     "title" :> Variant("MetaInlines", << <<Hi>> >>),
     "title" :> Variant("MetaBlocks", << <<ParaHi>> >>),
     "title" :> Variant("MetaList", << <<MetaBool(TRUE), MetaString("Hi")>> >>),
     "title" :> MetaMap(<<>>),
     "title" :> MetaMap("k" :> MetaBool(FALSE)),
     "title" :> MetaMap(("t" :> MetaBool(TRUE)) @@ ("c" :> MetaString("Hi"))),
     "title" :> MetaMap(("t" :> MetaString("Str")) @@ ("c" :> MetaString("Hi")) @@ ("k" :> MetaBool(TRUE))),
     ("a" :> MetaString("Hi")) @@ ("b" :> MetaBool(TRUE)),
     "t" :> MetaString("Hi"),
     "c" :> MetaString("Hi"),
     ("t" :> MetaBool(TRUE)) @@ ("c" :> MetaString("Hi")),
     ("t" :> MetaString("Str")) @@ ("c" :> MetaString("Hi")),
     ("t" :> MetaString("Str")) @@ ("c" :> MetaString("Hi")) @@ ("k" :> MetaBool(TRUE))}

NoMeta == [unMeta |-> <<>>]

Docs ==
    {<<[unMeta |-> m], <<>> >> : m \in MetaSamples}
    \cup {<<NoMeta, <<b>> >> : b \in BlockSamples \cup Nested(MaxNesting)}
    \cup {<<[unMeta |-> "title" :> MetaString("Hi")], <<ParaHi, UnitVariant("HorizontalRule")>> >>}


\* JSON values of any shape, tag wrappers and near-wrappers among them
Scalars ==
    {ValueNull, ValueBool(TRUE), ValueNumber(1), ValueString("Hi"), ValueString("Str")}

Wrapper(tag, payload) == ValueObject(("t" :> ValueString(tag)) @@ ("c" :> payload))

Around(v) ==
    {ValueArray(<<v>>),
     ValueArray(<<ValueNumber(1), v>>),
     ValueObject("k" :> v),
     ValueObject("t" :> v),
     ValueObject("c" :> v),
     ValueObject(("t" :> v) @@ ("k" :> ValueString("Str"))),
     ValueObject(("t" :> ValueString("Str")) @@ ("c" :> v) @@ ("k" :> ValueNull)),
     ValueObject(("t" :> v) @@ ("c" :> ValueString("Hi"))),
     ValueObject(("t" :> ValueNumber(1)) @@ ("c" :> v)),
     Wrapper("Str", v), Wrapper("t", v), Wrapper("c", v)}

RECURSIVE Values(_)

Values(d) ==
    IF d = 0 THEN Scalars \cup {ValueArray(<<>>), ValueObject(<<>>)}
    ELSE Values(d - 1) \cup UNION {Around(v) : v \in Values(d - 1)}

\* documents in the external format, written out as pandoc prints them
EmptyDocument == ValueArray(<<ValueObject("unMeta" :> ValueObject(<<>>)), ValueArray(<<>>)>>)

External(unMeta, blocks) == ValueArray(<<ValueObject("unMeta" :> ValueObject(unMeta)), ValueArray(blocks)>>)

StrHi == Wrapper("Str", ValueString("Hi"))

NoAttr == ValueArray(<<ValueString(""), ValueArray(<<>>), ValueArray(<<>>)>>)

ExternalDocuments ==
    {EmptyDocument,
     External(<<>>, <<Wrapper("Header", ValueArray(<<ValueNumber(1), NoAttr, ValueArray(<<StrHi>>)>>))>>),
     External(<<>>, <<Wrapper("HorizontalRule", ValueArray(<<>>))>>),
     External(<<>>, <<Wrapper("Para", ValueArray(<<Wrapper("Emph", ValueArray(<<StrHi>>)),
                                                  Wrapper("Space", ValueArray(<<>>)), StrHi>>))>>),
     External(<<>>, <<Wrapper("Div", ValueArray(<<NoAttr,
                          ValueArray(<<Wrapper("BlockQuote", ValueArray(<<Wrapper("Null", ValueArray(<<>>))>>))>>)>>))>>),
     External("title" :> Wrapper("MetaInlines", ValueArray(<<StrHi>>)), <<>>),
     External("title" :> Wrapper("MetaMap", ValueObject("k" :> Wrapper("MetaBool", ValueBool(TRUE)))), <<>>),
     External(("t" :> Wrapper("MetaString", ValueString("Hi"))) @@ ("c" :> Wrapper("MetaBool", ValueBool(TRUE))), <<>>),
     External("title" :> Wrapper("MetaMap", ValueObject(("t" :> Wrapper("MetaString", ValueString("Hi")))
                                                        @@ ("c" :> Wrapper("MetaBool", ValueBool(TRUE))))), <<>>)}

Malformed == {<<"Malformed", 1>>, <<"Malformed", 2>>}

\* the transforms a caller passes: the identity, one that returns a fixed
\* document, one that panics
Identity == <<"id">>

Transforms == {Identity, <<"panic">>} \cup {<<"const", d>> : d \in Docs}

Inputs ==
    {<<text, Identity>> : text \in Malformed \cup {Text(v) : v \in Values(MaxDepth) \cup ExternalDocuments}}
    \cup {<<Text(EmptyDocument), g>> : g \in Transforms}
    \cup {<<t, <<"panic">> >> : t \in Malformed}

-----------------------------------------------------------------------------
(* pub fn filter(json, f): one action per statement.                        *)

Steps == <<"from_str", "pandoc_to_serde", "from_value", "f", "to_string">>

Init ==
    /\ \E input \in Inputs : json = input[1] /\ f = input[2]
    /\ pc = "from_str"
    /\ data = None
    /\ doc = None
    /\ out = None
    /\ err = "none"
    /\ calls = 0
    /\ trace = <<>>
    /\ round = 1
    /\ sent = None

Abort(site) ==
    /\ pc' = "panicked"
    /\ err' = site

\* let mut data: Value = from_str(&json).unwrap();
Parse ==
    /\ pc = "from_str"
    /\ trace' = Append(trace, "from_str")
    /\ LET r == from_str(json)
       IN  IF IsOk(r)
           THEN /\ data' = r[2]
                /\ pc' = "pandoc_to_serde"
                /\ err' = err
           ELSE /\ Abort("from_str")
                /\ data' = data
    /\ UNCHANGED <<json, f, doc, out, calls, round, sent>>

\* pandoc_to_serde(&mut data);
Normalize ==
    /\ pc = "pandoc_to_serde"
    /\ trace' = Append(trace, "pandoc_to_serde")
    /\ LET r == pandoc_to_serde(data)
       IN  IF IsOk(r)
           THEN /\ data' = r[2]
                /\ pc' = "from_value"
                /\ err' = err
           ELSE /\ Abort(r[2])
                /\ data' = None
    /\ UNCHANGED <<json, f, doc, out, calls, round, sent>>

\* a slip in line 374: a value that does not decode is replaced by the
\* empty document instead of ending the invocation
DecodeOrDefault ==
    /\ pc = "from_value"
    /\ trace' = Append(trace, "from_value")
    /\ LET r == from_value(data)
       IN  doc' = IF IsOk(r) THEN r[2] ELSE <<NoMeta, <<>> >>
    /\ pc' = "f"
    /\ err' = err
    /\ data' = None
    /\ UNCHANGED <<json, f, out, calls, round, sent>>

\* let data = from_value(data).unwrap();
Decode ==
    /\ pc = "from_value"
    /\ trace' = Append(trace, "from_value")
    /\ LET r == from_value(data)
       IN  IF IsOk(r)
           THEN /\ doc' = r[2]
                /\ pc' = "f"
                /\ err' = err
           ELSE /\ Abort("from_value")
                /\ doc' = doc
    /\ data' = None
    /\ UNCHANGED <<json, f, out, calls, round, sent>>

\* let data = f(data);
Transform ==
    /\ pc = "f"
    /\ trace' = Append(trace, "f")
    /\ calls' = calls + 1
    /\ CASE f[1] = "id"    -> doc' = doc /\ pc' = "to_string" /\ err' = err
         [] f[1] = "const" -> doc' = f[2] /\ pc' = "to_string" /\ err' = err
         [] f[1] = "panic" -> doc' = None /\ Abort("f")
    /\ UNCHANGED <<json, f, data, out, round, sent>>

\* to_string(&data).unwrap()
Encode ==
    /\ pc = "to_string"
    /\ trace' = Append(trace, "to_string")
    /\ out' = to_string(doc)
    /\ pc' = "returned"
    /\ UNCHANGED <<json, f, data, doc, err, calls, round, sent>>

\* the returned text is given to filter again, with the identity transform
Refilter ==
    /\ pc = "returned"
    /\ round < MaxInvocations
    /\ json' = out
    /\ f' = Identity
    /\ sent' = doc
    /\ round' = round + 1
    /\ pc' = "from_str"
    /\ data' = None
    /\ doc' = None
    /\ out' = None
    /\ calls' = 0
    /\ trace' = <<>>
    /\ err' = err

Next == Parse \/ Normalize \/ Decode \/ Transform \/ Encode \/ Refilter

Spec == Init /\ [][Next]_vars

-----------------------------------------------------------------------------
(* What the properties speak of.                                           *)

RECURSIVE Subvalues(_)

\* a JSON value and every value nested in it, at any depth
Subvalues(v) ==
    {v} \cup CASE v[1] = "Array"  -> UNION {Subvalues(v[2][i]) : i \in DOMAIN v[2]}
               [] v[1] = "Object" -> UNION {Subvalues(v[2][k]) : k \in DOMAIN v[2]}
               [] OTHER -> {}

\* an object whose key set is exactly {"t", "c"}
HasKeysTC(v) == v[1] = "Object" /\ DOMAIN v[2] = {"t", "c"}

\* a tag wrapper: the value under "t" is a string
TagWrapper(v) == HasKeysTC(v) /\ v[2]["t"][1] = "String"

NonStringTagged(v) == HasKeysTC(v) /\ v[2]["t"][1] # "String"

\* the input text is JSON and pandoc_to_serde has run on it and returned
Normalized == pc = "from_value" /\ json[1] = "Text"

\* the panics of the decoding steps (the spec's DecodeError) and of parsing
DecodeError == {"unimplemented", "from_value"}

ParseError == {"from_str"}

(* C3: when the parsed input holds, at any depth, an object with exactly   *)
(* the keys "t" and "c" whose "t" is not a string, filter never gets past  *)
(* pandoc_to_serde: the invocation ends in the panic of the decoding step  *)
(* and no rewritten value is ever handed on.                               *)
C3_NonStringTagRejected ==
    (json[1] = "Text" /\ \E v \in Subvalues(json[2]) : NonStringTagged(v))
        => \/ pc \in {"from_str", "pandoc_to_serde"}
           \/ pc = "panicked" /\ err = "unimplemented" /\ err \in DecodeError /\ data = None /\ out = None

C3_Witness ==
    /\ pc = "panicked" /\ err = "unimplemented"
    /\ \E v \in Subvalues(json[2]) : TagWrapper(v) /\ \E w \in Subvalues(v[2]["c"]) : NonStringTagged(w)

RECURSIVE Rewritten(_, _)

\* after is before with every tag wrapper replaced by the one-key object
Rewritten(before, after) ==
    IF TagWrapper(before)
    THEN LET s == before[2]["t"][2]
         IN  /\ after[1] = "Object"
             /\ DOMAIN after[2] = {s}
             /\ pandoc_to_serde(before[2]["c"]) = Ok(after[2][s])
             /\ Rewritten(before[2]["c"], after[2][s])
    ELSE IF before[1] \in {"Array", "Object"}
    THEN /\ after[1] = before[1]
         /\ DOMAIN after[2] = DOMAIN before[2]
         /\ \A k \in DOMAIN before[2] : Rewritten(before[2][k], after[2][k])
    ELSE TRUE

(* C7: once pandoc_to_serde has returned, every object of the input with   *)
(* exactly the keys "t" and "c" and a string under "t", at any depth, has  *)
(* become an object with the single key that string, holding the rewritten *)
(* former "c" value; also when the string is "t" or "c".                   *)
C7_WrapperBecomesSingleKey == Normalized => Rewritten(json[2], data)

C7_Witness ==
    /\ Normalized
    /\ \E v \in Subvalues(json[2]) :
          /\ TagWrapper(v)
          /\ \E w \in Subvalues(v[2]["c"]) : TagWrapper(w) /\ w[2]["t"][2] \in {"t", "c"}

(* C8: when the input holds no object whose key set is exactly {"t","c"},  *)
(* the value pandoc_to_serde leaves is the input.                          *)
C8_NothingElseChanges ==
    (Normalized /\ \A v \in Subvalues(json[2]) : ~HasKeysTC(v)) => data = json[2]

C8_Witness ==
    /\ Normalized
    /\ \A v \in Subvalues(json[2]) : ~HasKeysTC(v)
    /\ \E v \in Subvalues(json[2]) \ {json[2]} :
          v[1] = "Object" /\ {"t", "c"} \subseteq DOMAIN v[2] /\ v[2]["t"][1] = "String"
    /\ \E v \in Subvalues(json[2]) : v[1] = "Object" /\ DOMAIN v[2] = {"t", "k"}

(* C10: the value pandoc_to_serde leaves holds no object whose key set is  *)
(* exactly {"t","c"}, and pandoc_to_serde applied to it returns it.        *)
C10_Idempotent ==
    Normalized => /\ \A v \in Subvalues(data) : ~HasKeysTC(v)
                  /\ pandoc_to_serde(data) = Ok(data)

C10_Witness ==
    /\ Normalized
    /\ data # json[2]
    /\ \E v \in Subvalues(json[2]) : TagWrapper(v) /\ \E w \in Subvalues(v[2]["c"]) : TagWrapper(w)


-----------------------------------------------------------------------------
(* The encoder.                                                            *)

RECURSIVE Nodes(_, _)

\* a typed value and every typed value it is made of, each with its type
Nodes(ty, v) ==
    {<<ty, v>>}
    \cup CASE ty[1] \in {"String", "Int", "Double", "Bool"} -> {}
           [] ty[1] = "Vec"   -> UNION {Nodes(ty[2], v[i]) : i \in DOMAIN v}
           [] ty[1] = "Tuple" -> UNION {Nodes(ty[2][i], v[i]) : i \in DOMAIN ty[2]}
           [] ty[1] = "Map"   -> UNION {Nodes(ty[2], v[k]) : k \in DOMAIN v}
           [] ty[1] = "Enum"  ->
                LET tys == VariantsOf(ty[2])[v[1]]
                IN  UNION {Nodes(tys[i], v[2][i]) : i \in DOMAIN tys}
           [] ty = Pandoc   -> UNION {Nodes(PandocFields[i], v[i]) : i \in DOMAIN PandocFields}
           [] ty = Meta     -> UNION {Nodes(MetaFields[k], v[k]) : k \in DOMAIN MetaFields}
           [] ty = Citation -> UNION {Nodes(CitationFields[k], v[k]) : k \in DOMAIN CitationFields}
           [] ty = Format   -> Nodes(StringTy, v[1])

\* filter has returned: out is the encoding of doc
Returned == pc = "returned"

\* the payload a variant with fields of the types tys and the values vals should get
ArityPayload(tys, vals, c) ==
    CASE Len(tys) = 0 -> c = ValueArray(<<>>)
      [] Len(tys) = 1 -> c = Serialize(tys[1], vals[1])
      [] OTHER -> /\ c[1] = "Array"
                  /\ Len(c[2]) = Len(tys)
                  /\ \A i \in DOMAIN tys : c[2][i] = Serialize(tys[i], vals[i])

(* C4: every tagged-union value of an encoded document is emitted as an    *)
(* object with exactly the keys "t" and "c": "t" the variant name, "c" an  *)
(* empty array for a variant without fields, the encoding of the field for *)
(* a variant with one field, and the array of the fields' encodings in     *)
(* declaration order for a variant with two or more.                       *)
C4_TagWrapperPerArity ==
    Returned =>
        \A n \in Nodes(Pandoc, doc) :
            n[1][1] = "Enum" =>
                LET e == Serialize(n[1], n[2])
                IN  /\ e \in Subvalues(out[2])
                    /\ e[1] = "Object"
                    /\ DOMAIN e[2] = {"t", "c"}
                    /\ e[2]["t"] = ValueString(n[2][1])
                    /\ ArityPayload(VariantsOf(n[1][2])[n[2][1]], n[2][2], e[2]["c"])

C4_Witness ==
    /\ Returned
    /\ \E n \in Nodes(Pandoc, doc) : n[1] = Block /\ n[2][1] = "Table"
    /\ Wrapper("AlignLeft", ValueArray(<<>>)) \in Subvalues(out[2])

(* C6: a value of a type that is no tagged union is encoded in its natural *)
(* shape and never as a tag wrapper: the root as the array [Meta, blocks], *)
(* Meta as the object with the one key "unMeta" holding the map, Citation  *)
(* as the object of its six fields, a tuple (Attr, Target, ListAttributes) *)
(* as the array of its parts in order.                                     *)
C6_NaturalShapes ==
    Returned =>
        /\ out = Text(Serialize(Pandoc, doc))
        /\ \A n \in Nodes(Pandoc, doc) :
             n[1][1] # "Enum" =>
                LET e == Serialize(n[1], n[2])
                    v == n[2]
                IN  /\ e \in Subvalues(out[2])
                    /\ ~TagWrapper(e)
                    /\ n[1] = Pandoc =>
                         /\ e[1] = "Array" /\ Len(e[2]) = 2
                         /\ e[2][1] = Serialize(Meta, v[1])
                         /\ e[2][2][1] = "Array" /\ Len(e[2][2][2]) = Len(v[2])
                         /\ \A i \in DOMAIN v[2] : e[2][2][2][i] = Serialize(Block, v[2][i])
                    /\ n[1] = Meta =>
                         /\ e[1] = "Object" /\ DOMAIN e[2] = {"unMeta"}
                         /\ e[2]["unMeta"][1] = "Object"
                         /\ DOMAIN e[2]["unMeta"][2] = DOMAIN v.unMeta
                         /\ \A k \in DOMAIN v.unMeta :
                               e[2]["unMeta"][2][k] = Serialize(MetaValue, v.unMeta[k])
                    /\ n[1] = Citation =>
                         /\ e[1] = "Object"
                         /\ DOMAIN e[2] = {"citationId", "citationPrefix", "citationSuffix",
                                           "citationMode", "citationNoteNum", "citationHash"}
                         /\ \A k \in DOMAIN e[2] : e[2][k] = Serialize(CitationFields[k], v[k])
                    /\ n[1][1] = "Tuple" =>
                         /\ e[1] = "Array" /\ Len(e[2]) = Len(n[1][2])
                         /\ \A i \in DOMAIN n[1][2] : e[2][i] = Serialize(n[1][2][i], v[i])

C6_Witness ==
    /\ Returned
    /\ \E n \in Nodes(Pandoc, doc) : n[1] = Citation
    /\ \E n \in Nodes(Pandoc, doc) : n[1] = Target


EnumNames ==
    {"MetaValue", "Block", "Inline", "Alignment", "ListNumberStyle", "ListNumberDelim",
     "QuoteType", "MathType", "CitationMode"}

VariantNames == UNION {DOMAIN VariantsOf(name) : name \in EnumNames}

\* the tagged-union values a document is made of
EnumNodes(d) == {n \in Nodes(Pandoc, d) : n[1][1] = "Enum"}

\* the JSON values lying inside the encoding of some tagged-union value of d,
\* that is, in a variant payload
InPayload(d) ==
    UNION {Subvalues(Serialize(n[1], n[2])) \ {Serialize(n[1], n[2])} : n \in EnumNodes(d)}

\* the encodings of the maps held by the MetaMap values of d
MetaMapPayloads(d) ==
    {Serialize(Map(MetaValue), n[2][2][1]) : n \in {m \in EnumNodes(d) : m[2][1] = "MetaMap"}}

NamesVariant(w) == TagWrapper(w) /\ w[2]["t"][2] \in VariantNames

(* C9, as claimed: in the encoding of a document, an object with the key   *)
(* set {"t","c"} inside a variant payload is always a tag wrapper whose    *)
(* "t" is a variant name; no other object with these two keys occurs in a  *)
(* variant payload.                                                        *)
C9_ClosedWorld ==
    Returned => \A w \in InPayload(doc) :
                    HasKeysTC(w) => (w \in Subvalues(out[2]) /\ NamesVariant(w))

(* C9, amended: such an object is a tag wrapper whose "t" is a variant     *)
(* name, or it is the map that is the whole payload of a MetaMap wrapper.  *)
C9_ClosedWorldButMetaMap ==
    Returned => \A w \in InPayload(doc) :
                    HasKeysTC(w) => /\ w \in Subvalues(out[2])
                                    /\ NamesVariant(w) \/ w \in MetaMapPayloads(doc)

C9_Witness ==
    /\ Returned
    /\ \E v \in Subvalues(out[2]) :
          /\ TagWrapper(v) /\ v[2]["t"] = ValueString("MetaMap")
          /\ HasKeysTC(v[2]["c"]) /\ ~TagWrapper(v[2]["c"])

\* the steps of this invocation that have run, and whether they succeeded
ParseFails == json[1] # "Text"

DecodeFails ==
    /\ json[1] = "Text"
    /\ LET r == pandoc_to_serde(json[2])
       IN  IsOk(r) => ~IsOk(from_value(r[2]))

(* C5: filter runs from_str, pandoc_to_serde, from_value, f, to_string in  *)
(* this order; f is called at most once, only when parsing and decoding    *)
(* have succeeded, and exactly once before a text is returned; when the    *)
(* input is not JSON or does not decode, the invocation ends in the panic  *)
(* of that step, f is never called and no text is returned.                *)
C5_PipelineOrder ==
    /\ Len(trace) <= Len(Steps)
    /\ \A i \in DOMAIN trace : trace[i] = Steps[i]
    /\ calls <= 1
    /\ calls = 1 <=> (Len(trace) >= 4)
    /\ calls = 1 => (~ParseFails /\ ~DecodeFails)
    /\ Returned => (calls = 1 /\ trace = Steps /\ out # None)
    /\ ~Returned => out = None
    /\ ParseFails => (calls = 0 /\ pc \in {"from_str", "panicked"} /\ (pc = "panicked" => err \in ParseError))
    /\ DecodeFails => /\ calls = 0
                      /\ pc \in {"from_str", "pandoc_to_serde", "from_value", "panicked"}
                      /\ pc = "panicked" => err \in DecodeError

C5_Witness ==
    /\ pc = "panicked" /\ err = "from_value" /\ calls = 0 /\ out = None
    /\ trace = <<"from_str", "pandoc_to_serde", "from_value">>
    /\ \E v \in Subvalues(json[2]) : TagWrapper(v)

(* C1: a document that was encoded by to_string decodes, by pandoc_to_serde *)
(* and from_value, to the same document; the decoding never fails.         *)
C1_DecodeOfEncode ==
    round > 1 => /\ pc # "panicked"
                 /\ pc \in {"f", "to_string", "returned"} => doc = sent

(* C2: filter with the identity transform, given a well-formed document in *)
(* the external format, returns a text of the same JSON value (objects are *)
(* compared as maps, whatever the order of their keys).                    *)
C2_IdentityFilter ==
    (round = 1 /\ f = Identity /\ json[1] = "Text" /\ json[2] \in ExternalDocuments)
        => /\ pc # "panicked"
           /\ Returned => out = json

====
